---- MODULE Spec2Model ----
(***************************************************************************)
(* Model of the call-center dispatch loop of src/src/main.rs: the three    *)
(* shared collections behind RwLocks (USER_DATA, CALL_DATA,                *)
(* ASSIGNED_CALL_DATA), the three background threads (create_call,         *)
(* assign_call, reset_status) and the read-only HTTP handlers.             *)
(***************************************************************************)
EXTENDS Integers, Sequences, FiniteSets, TLC

VARIABLES USER_DATA, CALL_DATA, ASSIGNED_CALL_DATA,
          pc, held, endpoint, new_call, call, pass_calls, generated, reset_log,
          poisoned, unwrap_failed

vars == <<USER_DATA, CALL_DATA, ASSIGNED_CALL_DATA,
          pc, held, endpoint, new_call, call, pass_calls, generated, reset_log,
          poisoned, unwrap_failed>>

(* ---------------------------- bounds ----------------------------------- *)

\* Number of calls the generator thread produces before the model stops it.
MaxCalls == 2

\* Call ids are drawn from 1..MaxId (the program draws from 1..9998).
MaxId == 6

(* ---------------------------- data ------------------------------------- *)

None == [none |-> TRUE]

CallIds == 1..MaxId

\* Variant of the seed roster with Charlie entered under Bob's department.
create_users_Typo ==
    << [id |-> 1, name |-> "Alice",   department |-> "Sales",     status |-> "Available"],
       [id |-> 2, name |-> "Bob",     department |-> "Renewal",   status |-> "Available"],
       [id |-> 3, name |-> "Charlie", department |-> "Renewal",   status |-> "Available"],
       [id |-> 4, name |-> "David",   department |-> "Developer", status |-> "Available"],
       [id |-> 5, name |-> "Eve",     department |-> "Hr",        status |-> "Available"] >>

\* create_users()
create_users ==
    << [id |-> 1, name |-> "Alice",   department |-> "Sales",     status |-> "Available"],
       [id |-> 2, name |-> "Bob",     department |-> "Renewal",   status |-> "Available"],
       [id |-> 3, name |-> "Charlie", department |-> "Audit",     status |-> "Available"],
       [id |-> 4, name |-> "David",   department |-> "Developer", status |-> "Available"],
       [id |-> 5, name |-> "Eve",     department |-> "Hr",        status |-> "Available"] >>

\* Off-by-one variant of the id -> department match.
DepartmentOf_Shifted(call_id) ==
    CASE call_id % 5 = 1 -> "Sales"
      [] call_id % 5 = 2 -> "Renewal"
      [] call_id % 5 = 3 -> "Audit"
      [] call_id % 5 = 4 -> "Developer"
      [] OTHER           -> "Hr"

\* match call_id % 5 { 0 => Sales, 1 => Renewal, 2 => Audit, 3 => Developer, _ => Hr }
DepartmentOf(call_id) ==
    CASE call_id % 5 = 0 -> "Sales"
      [] call_id % 5 = 1 -> "Renewal"
      [] call_id % 5 = 2 -> "Audit"
      [] call_id % 5 = 3 -> "Developer"
      [] OTHER           -> "Hr"

\* Call { id, details: format!("Call details for ID {}", id), department }
NewCall(call_id) ==
    [id |-> call_id,
     details |-> <<"Call details for ID", call_id>>,
     department |-> DepartmentOf(call_id)]

(* ---------------------------- locks ------------------------------------ *)

Tasks == {"create_call", "assign_call", "reset_status", "handler"}

Endpoints == {"get_users", "get_calls", "get_assigned_calls"}

W(l) == [lock |-> l, mode |-> "write"]
R(l) == [lock |-> l, mode |-> "read"]

\* create_call: CALL_DATA.write()
CreateCallLocks == << W("CALL_DATA") >>

\* Variant of assign_call that does not take the log lock for the pass.
AssignCallLocks_NoLog == << W("CALL_DATA"), W("USER_DATA") >>

\* assign_call: CALL_DATA.write(), USER_DATA.write(), ASSIGNED_CALL_DATA.write()
AssignCallLocks == << W("CALL_DATA"), W("USER_DATA"), W("ASSIGNED_CALL_DATA") >>

\* Variant of reset_status that takes the log before the roster.
ResetStatusLocks_LogFirst == << R("ASSIGNED_CALL_DATA"), W("USER_DATA") >>

\* reset_status: USER_DATA.write(), ASSIGNED_CALL_DATA.read()
ResetStatusLocks == << W("USER_DATA"), R("ASSIGNED_CALL_DATA") >>

\* get_users / get_calls / get_assigned_calls: one read() each
HandlerLocks(ep) ==
    CASE ep = "get_users"          -> << R("USER_DATA") >>
      [] ep = "get_calls"          -> << R("CALL_DATA") >>
      [] ep = "get_assigned_calls" -> << R("ASSIGNED_CALL_DATA") >>
      [] OTHER                     -> << >>

\* The lock requests a task makes, in program order.
LockSeq(t) ==
    CASE t = "create_call"  -> CreateCallLocks
      [] t = "assign_call"  -> AssignCallLocks
      [] t = "reset_status" -> ResetStatusLocks
      [] OTHER              -> HandlerLocks(endpoint)

\* The guards a task currently holds.
Held(t) == { LockSeq(t)[k] : k \in 1..held[t] }

\* RwLock: write() needs no other guard on the lock, read() needs no writer.
CanAcquire(t, rq) ==
    \A u \in Tasks \ {t} :
        \A g \in Held(u) :
            g.lock = rq.lock => (rq.mode = "read" /\ g.mode = "read")

\* A task takes the next guard of its sequence: read()/write() return Ok
\* only for a lock that is not poisoned.
Acquire(t) ==
    /\ held[t] < Len(LockSeq(t))
    /\ LockSeq(t)[held[t] + 1].lock \notin poisoned
    /\ CanAcquire(t, LockSeq(t)[held[t] + 1])
    /\ held' = [held EXCEPT ![t] = held[t] + 1]

HoldsAll(t) == held[t] = Len(LockSeq(t))

(* ---------------------------- initial state ---------------------------- *)

Init ==
    /\ USER_DATA = create_users
    /\ CALL_DATA = << >>
    /\ ASSIGNED_CALL_DATA = << >>
    /\ pc = [t \in Tasks |-> CASE t = "create_call"  -> "random_id"
                               [] t = "assign_call"  -> "lock"
                               [] t = "reset_status" -> "lock"
                               [] OTHER              -> "idle"]
    /\ held = [t \in Tasks |-> 0]
    /\ endpoint = "none"
    /\ new_call = None
    /\ call = None
    /\ pass_calls = << >>
    /\ generated = 0
    /\ reset_log = 0
    /\ poisoned = {}
    /\ unwrap_failed = FALSE

(* ---------------------------- create_call ------------------------------ *)

\* let call_id = random_id(); let new_call = Call { .. };
CreateCallNew ==
    /\ pc["create_call"] = "random_id"
    /\ generated < MaxCalls
    /\ \E call_id \in CallIds : new_call' = NewCall(call_id)
    /\ pc' = [pc EXCEPT !["create_call"] = "lock"]
    /\ UNCHANGED <<USER_DATA, CALL_DATA, ASSIGNED_CALL_DATA, held, endpoint,
                   call, pass_calls, generated, reset_log>>
    /\ UNCHANGED <<poisoned, unwrap_failed>>

\* let mut calls = CALL_DATA.write().unwrap();
CreateCallLock ==
    /\ pc["create_call"] = "lock"
    /\ Acquire("create_call")
    /\ pc' = [pc EXCEPT !["create_call"] = "push"]
    /\ UNCHANGED <<USER_DATA, CALL_DATA, ASSIGNED_CALL_DATA, endpoint,
                   new_call, call, pass_calls, generated, reset_log>>
    /\ UNCHANGED <<poisoned, unwrap_failed>>

\* Variant of the push that inserts the call at the head of the queue.
PushCall_AtHead(calls, c) == <<c>> \o calls

\* calls.push(new_call.clone())
PushCall(calls, c) == Append(calls, c)

\* calls.push(new_call.clone()); guard dropped; info!; sleep
CreateCallPush ==
    /\ pc["create_call"] = "push"
    /\ HoldsAll("create_call")
    /\ CALL_DATA' = PushCall(CALL_DATA, new_call)
    /\ held' = [held EXCEPT !["create_call"] = 0]
    /\ pc' = [pc EXCEPT !["create_call"] = "random_id"]
    /\ new_call' = None
    /\ generated' = generated + 1
    /\ UNCHANGED <<USER_DATA, ASSIGNED_CALL_DATA, endpoint, call, pass_calls, reset_log>>
    /\ UNCHANGED <<poisoned, unwrap_failed>>

(* ---------------------------- assign_call ------------------------------ *)

\* Variant of the agent search that does not compare departments.
FindUser_AnyDepartment(users, c) ==
    LET S == { i \in DOMAIN users : users[i].status = "Available" }
    IN  IF S = {} THEN 0 ELSE CHOOSE i \in S : \A j \in S : i <= j

\* users.iter_mut().find(|u| u.department == call.department
\*                           && u.status == Status::Available)
\* as the index of the first such user, 0 for no user.
FindUser(users, c) ==
    LET S == { i \in DOMAIN users :
                 users[i].department = c.department /\ users[i].status = "Available" }
    IN  IF S = {} THEN 0 ELSE CHOOSE i \in S : \A j \in S : i <= j

\* Variant of the log append that keeps one record per agent.
PushAssignment_PerUser(log, a) ==
    IF \E k \in DOMAIN log : log[k].user_id = a.user_id
    THEN [k \in DOMAIN log |-> IF log[k].user_id = a.user_id THEN a ELSE log[k]]
    ELSE Append(log, a)

\* assigned_calls.push(assignment)
PushAssignment(log, a) == Append(log, a)

\* Variant of the record with the two ids in each other's field.
NewAssignment_Swapped(user, c) == [user_id |-> c.id, call_id |-> user.id]

\* AssignedCall { user_id: user.id, call_id: call.id }
NewAssignment(user, c) == [user_id |-> user.id, call_id |-> c.id]

\* Variant of the pop that takes the oldest call, from the head.
Pop_Head(calls) ==
    [call |-> calls[1], rest |-> SubSeq(calls, 2, Len(calls))]

\* calls.pop() on a non-empty Vec: the last element, and the Vec without it.
Pop(calls) ==
    [call |-> calls[Len(calls)], rest |-> SubSeq(calls, 1, Len(calls) - 1)]

\* The three write() calls at the head of the block.
AssignCallLock ==
    /\ pc["assign_call"] = "lock"
    /\ Acquire("assign_call")
    /\ pc' = [pc EXCEPT !["assign_call"] =
                 IF held'["assign_call"] = Len(AssignCallLocks) THEN "pop" ELSE "lock"]
    /\ pass_calls' = IF held'["assign_call"] = Len(AssignCallLocks)
                     THEN CALL_DATA ELSE pass_calls
    /\ UNCHANGED <<USER_DATA, CALL_DATA, ASSIGNED_CALL_DATA, endpoint,
                   new_call, call, generated, reset_log>>
    /\ UNCHANGED <<poisoned, unwrap_failed>>

\* One iteration of `while let Some(call) = calls.pop() { .. }`.
AssignCallLoop ==
    /\ pc["assign_call"] = "pop"
    /\ CALL_DATA # << >>
    /\ LET c == Pop(CALL_DATA).call
           i == FindUser(USER_DATA, c)
       IN  /\ CALL_DATA' = Pop(CALL_DATA).rest
           /\ call' = c
           /\ IF i # 0
              THEN /\ USER_DATA' = [USER_DATA EXCEPT ![i].status = "OnCall"]
                   /\ ASSIGNED_CALL_DATA' =
                          PushAssignment(ASSIGNED_CALL_DATA,
                                         NewAssignment(USER_DATA[i], c))
              ELSE UNCHANGED <<USER_DATA, ASSIGNED_CALL_DATA>>
    /\ UNCHANGED <<pc, held, endpoint, new_call, pass_calls, generated, reset_log>>
    /\ UNCHANGED <<poisoned, unwrap_failed>>

\* calls.pop() returns None: the loop ends, the three guards are dropped, sleep.
AssignCallEnd ==
    /\ pc["assign_call"] = "pop"
    /\ CALL_DATA = << >>
    /\ call' = None
    /\ pass_calls' = << >>
    /\ held' = [held EXCEPT !["assign_call"] = 0]
    /\ pc' = [pc EXCEPT !["assign_call"] = "lock"]
    /\ UNCHANGED <<USER_DATA, CALL_DATA, ASSIGNED_CALL_DATA, endpoint,
                   new_call, generated, reset_log>>
    /\ UNCHANGED <<poisoned, unwrap_failed>>

(* ---------------------------- reset_status ----------------------------- *)

\* Variant of the id collection that maps the records to their call ids.
AssignedUserIds_CallIds(log) == { log[k].call_id : k \in DOMAIN log }

\* assigned_calls.iter().map(|ac| ac.user_id).collect()
AssignedUserIds(log) == { log[k].user_id : k \in DOMAIN log }

\* Variant of the per-user reset that marks the agent logged out.
ResetUser_LoggedOut(u, ids) ==
    IF u.id \in ids THEN [u EXCEPT !.status = "LoggedOut"] ELSE u

\* if assigned_user_ids.contains(&user.id) { user.status = Status::Available; }
ResetUser(u, ids) ==
    IF u.id \in ids THEN [u EXCEPT !.status = "Available"] ELSE u

\* Variant of the sweep that flips the status of every logged agent.
ResetSweep_Toggle(users, log) ==
    [i \in DOMAIN users |->
        IF users[i].id \in AssignedUserIds(log)
        THEN [users[i] EXCEPT !.status =
                 IF users[i].status = "OnCall" THEN "Available" ELSE "OnCall"]
        ELSE users[i]]

\* Variant of the sweep that stops after the first roster entry.
ResetSweep_FirstOnly(users, log) ==
    [i \in DOMAIN users |->
        IF i = 1 THEN ResetUser(users[i], AssignedUserIds(log)) ELSE users[i]]

\* for user in users.iter_mut() { .. }
ResetSweep(users, log) ==
    [i \in DOMAIN users |-> ResetUser(users[i], AssignedUserIds(log))]

\* Number of "is now available again" messages of one sweep.
ResetMessages(users, log) ==
    Cardinality({ i \in DOMAIN users : users[i].id \in AssignedUserIds(log) })

\* USER_DATA.write(), ASSIGNED_CALL_DATA.read()
ResetStatusLock ==
    /\ pc["reset_status"] = "lock"
    /\ Acquire("reset_status")
    /\ pc' = [pc EXCEPT !["reset_status"] =
                 IF held'["reset_status"] = Len(ResetStatusLocks) THEN "sweep" ELSE "lock"]
    /\ UNCHANGED <<USER_DATA, CALL_DATA, ASSIGNED_CALL_DATA, endpoint,
                   new_call, call, pass_calls, generated, reset_log>>
    /\ UNCHANGED <<poisoned, unwrap_failed>>

\* The sweep over the roster; the guards are dropped at the end of the block.
ResetStatusSweep ==
    /\ pc["reset_status"] = "sweep"
    /\ USER_DATA' = ResetSweep(USER_DATA, ASSIGNED_CALL_DATA)
    /\ reset_log' = ResetMessages(USER_DATA, ASSIGNED_CALL_DATA)
    /\ held' = [held EXCEPT !["reset_status"] = 0]
    /\ pc' = [pc EXCEPT !["reset_status"] = "lock"]
    /\ UNCHANGED <<CALL_DATA, ASSIGNED_CALL_DATA, endpoint, new_call, call, pass_calls,
                   generated>>
    /\ UNCHANGED <<poisoned, unwrap_failed>>

(* ---------------------------- handlers --------------------------------- *)

\* A GET request is routed to one of the three handlers.
HandlerRequest ==
    /\ pc["handler"] = "idle"
    /\ \E ep \in Endpoints : endpoint' = ep
    /\ pc' = [pc EXCEPT !["handler"] = "lock"]
    /\ UNCHANGED <<USER_DATA, CALL_DATA, ASSIGNED_CALL_DATA, held,
                   new_call, call, pass_calls, generated, reset_log>>
    /\ UNCHANGED <<poisoned, unwrap_failed>>

\* X.read().unwrap()
HandlerLock ==
    /\ pc["handler"] = "lock"
    /\ Acquire("handler")
    /\ pc' = [pc EXCEPT !["handler"] = "clone"]
    /\ UNCHANGED <<USER_DATA, CALL_DATA, ASSIGNED_CALL_DATA, endpoint,
                   new_call, call, pass_calls, generated, reset_log>>
    /\ UNCHANGED <<poisoned, unwrap_failed>>

\* Json(x.clone()); the guard is dropped on return.
HandlerReply ==
    /\ pc["handler"] = "clone"
    /\ held' = [held EXCEPT !["handler"] = 0]
    /\ pc' = [pc EXCEPT !["handler"] = "idle"]
    /\ endpoint' = "none"
    /\ UNCHANGED <<USER_DATA, CALL_DATA, ASSIGNED_CALL_DATA,
                   new_call, call, pass_calls, generated, reset_log>>
    /\ UNCHANGED <<poisoned, unwrap_failed>>

(* ---------------------------- panics ----------------------------------- *)

\* The locks a task poisons when it panics: those it holds a write guard of.
PoisonedBy(t) == { g.lock : g \in { h \in Held(t) : h.mode = "write" } }

\* A thread panics inside its guarded block (a fault of the environment:
\* the code of the block has no panic of its own).  Its guards are dropped
\* during unwinding, which poisons the locks it held for writing, and the
\* thread is gone.
HolderPanics ==
    \E t \in {"create_call", "assign_call", "reset_status"} :
        /\ pc[t] \in {"push", "pop", "sweep"}
        /\ poisoned' = poisoned \cup PoisonedBy(t)
        /\ held' = [held EXCEPT ![t] = 0]
        /\ pc' = [pc EXCEPT ![t] = "panicked"]
        /\ UNCHANGED <<USER_DATA, CALL_DATA, ASSIGNED_CALL_DATA, endpoint,
                       new_call, call, pass_calls, generated, reset_log, unwrap_failed>>

\* read()/write() return Err(PoisonError) once the lock is free, and
\* .unwrap() panics: a thread ends (poisoning what it holds for writing), a
\* handler's panic ends only its request.  No other task is stopped:
\* main awaits the server task before it joins any thread.
LockFails ==
    \E t \in Tasks :
        /\ pc[t] = "lock"
        /\ held[t] < Len(LockSeq(t))
        /\ LockSeq(t)[held[t] + 1].lock \in poisoned
        /\ CanAcquire(t, LockSeq(t)[held[t] + 1])
        /\ poisoned' = poisoned \cup PoisonedBy(t)
        /\ held' = [held EXCEPT ![t] = 0]
        /\ pc' = [pc EXCEPT ![t] = IF t = "handler" THEN "idle" ELSE "panicked"]
        /\ endpoint' = IF t = "handler" THEN "none" ELSE endpoint
        /\ unwrap_failed' = TRUE
        /\ UNCHANGED <<USER_DATA, CALL_DATA, ASSIGNED_CALL_DATA,
                       new_call, call, pass_calls, generated, reset_log>>

(* ---------------------------- specification ---------------------------- *)

Next ==
    \/ CreateCallNew
    \/ CreateCallLock
    \/ CreateCallPush
    \/ AssignCallLock
    \/ AssignCallLoop
    \/ AssignCallEnd
    \/ ResetStatusLock
    \/ ResetStatusSweep
    \/ HandlerRequest
    \/ HandlerLock
    \/ HandlerReply

Spec == Init /\ [][Next]_vars

\* The threads are scheduled by the operating system: a thread that can run
\* does run, and a blocking read()/write() that can succeed again and again
\* does succeed.  The generator's draw and the arrival of requests are not
\* forced.
FairSpec ==
    /\ Spec
    /\ WF_vars(CreateCallPush)
    /\ SF_vars(AssignCallLock)
    /\ WF_vars(AssignCallLoop)
    /\ WF_vars(AssignCallEnd)
    /\ SF_vars(ResetStatusLock)
    /\ WF_vars(ResetStatusSweep)
    /\ WF_vars(HandlerReply)

\* The program with panics inside the guarded blocks.
FaultNext ==
    \/ Next
    \/ HolderPanics
    \/ LockFails

FaultSpec == Init /\ [][FaultNext]_vars

TypeOK ==
    /\ Len(USER_DATA) = 5
    /\ generated \in 0..MaxCalls
    /\ \A t \in Tasks : held[t] \in 0..Len(LockSeq(t))

(* ---------------------------- helpers of the properties ---------------- *)

Last(q) == q[Len(q)]

IsPrefix(p, q) == Len(p) <= Len(q) /\ \A k \in DOMAIN p : p[k] = q[k]

\* The step appended one record to the assignment log for the popped call.
AssignedPopped ==
    /\ Len(ASSIGNED_CALL_DATA') = Len(ASSIGNED_CALL_DATA) + 1
    /\ Last(ASSIGNED_CALL_DATA').call_id = call'.id

\* The spec's mapping, indexed by remainder 0..4.
Mapping == << "Sales", "Renewal", "Audit", "Developer", "Hr" >>

\* The lock a task is about to request.
Wanted(t) == LockSeq(t)[held[t] + 1]

\* The task is at a read()/write() call that cannot return now.
Blocked(t) == pc[t] = "lock" /\ ~CanAcquire(t, Wanted(t))

\* The global order Queue, Roster, Log.
Rank(l) ==
    CASE l = "CALL_DATA" -> 1
      [] l = "USER_DATA" -> 2
      [] OTHER           -> 3

\* t is blocked by a guard that u holds.
WaitsFor(t, u) ==
    /\ t # u
    /\ Blocked(t)
    /\ \E g \in Held(u) :
          g.lock = Wanted(t).lock /\ ~(g.mode = "read" /\ Wanted(t).mode = "read")

\* u is reachable from t in at most n steps of the waits-for relation.
RECURSIVE WaitsForWithin(_, _, _)
WaitsForWithin(t, u, n) ==
    IF n = 0 THEN FALSE
    ELSE \/ WaitsFor(t, u)
         \/ \E v \in Tasks : WaitsFor(t, v) /\ WaitsForWithin(v, u, n - 1)

\* The matcher is inside a pass: between its first queue read and the drop
\* of its guards.
InPass == pc["assign_call"] = "pop"

(* ---------------------------- C1 --------------------------------------- *)

\* C1: a step removes a call from CALL_DATA only if it appends the
\* AssignedCall of that call, and a call popped with no Available agent of
\* its department is still in the queue after the step.
C1_RemovedOnlyIfAssigned ==
    [][ /\ (Len(CALL_DATA') < Len(CALL_DATA) => AssignedPopped)
        /\ (AssignCallLoop /\ FindUser(USER_DATA, Last(CALL_DATA)) = 0
               => CALL_DATA' = CALL_DATA) ]_vars

(* ---------------------------- C2 --------------------------------------- *)

\* C2: an agent becomes OnCall, or gets a record in the log, only in a
\* matcher iteration, and then the agent was Available and is of the
\* department of the call that the iteration popped.
C2_OnCallOnlyByMatch ==
    [][ \A i \in DOMAIN USER_DATA :
          ( \/ (USER_DATA'[i].status = "OnCall" /\ USER_DATA[i].status # "OnCall")
            \/ (/\ Len(ASSIGNED_CALL_DATA') > Len(ASSIGNED_CALL_DATA)
                /\ Last(ASSIGNED_CALL_DATA').user_id = USER_DATA[i].id) )
          => /\ AssignCallLoop
             /\ USER_DATA[i].status = "Available"
             /\ USER_DATA'[i].status = "OnCall"
             /\ USER_DATA[i].department = call'.department ]_vars

\* A matcher iteration has just put an agent on the call it popped.
C2_Witness ==
    /\ InPass
    /\ call # None
    /\ ASSIGNED_CALL_DATA # << >>
    /\ Last(ASSIGNED_CALL_DATA).call_id = call.id
    /\ \E i \in DOMAIN USER_DATA :
          /\ USER_DATA[i].id = Last(ASSIGNED_CALL_DATA).user_id
          /\ USER_DATA[i].status = "OnCall"
          /\ USER_DATA[i].department = call.department

(* ---------------------------- C3 --------------------------------------- *)

\* C3: in every step of every task the assignment log before the step is a
\* prefix of the log after it.
C3_LogAppendOnly ==
    [][ IsPrefix(ASSIGNED_CALL_DATA, ASSIGNED_CALL_DATA') ]_vars

\* The log holds two records of one agent, and a sweep has run over it.
C3_Witness ==
    /\ reset_log > 0
    /\ \E j, k \in DOMAIN ASSIGNED_CALL_DATA :
          /\ j < k
          /\ ASSIGNED_CALL_DATA[j].user_id = ASSIGNED_CALL_DATA[k].user_id

(* ---------------------------- C4 --------------------------------------- *)

\* C4: a task that requests a lock while holding others holds only locks
\* that come earlier in the order Queue, Roster, Log, and no task is in a
\* cycle of the waits-for relation (so a chain of blocked tasks always ends
\* at a task that can run and release).
C4_LockOrderNoDeadlock ==
    /\ \A t \in Tasks :
          pc[t] = "lock" => \A g \in Held(t) : Rank(g.lock) < Rank(Wanted(t).lock)
    /\ \A t \in Tasks : ~WaitsForWithin(t, t, Cardinality(Tasks))
    /\ \A t \in Tasks :
          Blocked(t) => \E u \in Tasks :
                           /\ ~Blocked(u)
                           /\ Held(u) # {}
                           /\ WaitsForWithin(t, u, Cardinality(Tasks))

\* A chain of waiting tasks: a handler waits for the matcher, which waits
\* for the resetter.
C4_Witness ==
    /\ WaitsFor("handler", "assign_call")
    /\ WaitsFor("assign_call", "reset_status")

(* ---------------------------- C5 --------------------------------------- *)

\* C5: while the matcher is inside a pass it holds the write guards of
\* CALL_DATA, USER_DATA and ASSIGNED_CALL_DATA, no other task holds any
\* guard, and every step that changes one of the three collections is a
\* step of the matcher.
C5_PassExclusive ==
    [][ InPass =>
          /\ Held("assign_call") =
                { W("CALL_DATA"), W("USER_DATA"), W("ASSIGNED_CALL_DATA") }
          /\ \A t \in Tasks \ {"assign_call"} : Held(t) = {}
          /\ pc["create_call"] # "push"
          /\ pc["reset_status"] # "sweep"
          /\ pc["handler"] # "clone"
          /\ (<<USER_DATA, CALL_DATA, ASSIGNED_CALL_DATA>>'
                 # <<USER_DATA, CALL_DATA, ASSIGNED_CALL_DATA>> => AssignCallLoop) ]_vars

\* Mid-pass: one call handled, more to come, while the resetter and a
\* get_calls request wait for guards the matcher holds.
C5_Witness ==
    /\ InPass
    /\ call # None
    /\ CALL_DATA # << >>
    /\ endpoint = "get_calls"
    /\ WaitsFor("reset_status", "assign_call")
    /\ WaitsFor("handler", "assign_call")

(* ---------------------------- C6 --------------------------------------- *)

\* C6: a matcher iteration takes one call out of the queue and leaves the
\* others in their order, and when it assigns a call no call of the same
\* department that was enqueued earlier is left waiting in the queue.
C6_Fifo ==
    [][ AssignCallLoop =>
          /\ \E k \in DOMAIN CALL_DATA :
                CALL_DATA' = SubSeq(CALL_DATA, 1, k - 1)
                                \o SubSeq(CALL_DATA, k + 1, Len(CALL_DATA))
          /\ AssignedPopped =>
                \A k \in DOMAIN CALL_DATA' :
                    CALL_DATA'[k].department # call'.department ]_vars

(* ---------------------------- C7 --------------------------------------- *)

\* C7: pushing a call whose id is already queued adds a new entry, and a
\* call that shared the queue with another call of the same id at the start
\* of a pass is taken out of the queue only with its own AssignedCall.
C7_CollidingIdsKept ==
    [][ /\ CreateCallPush => Len(CALL_DATA') = Len(CALL_DATA) + 1
        /\ (AssignCallLoop
              /\ \E j \in DOMAIN pass_calls :
                    /\ j # Len(CALL_DATA)
                    /\ pass_calls[j].id = pass_calls[Len(CALL_DATA)].id)
              => AssignedPopped ]_vars

(* ---------------------------- C8 --------------------------------------- *)

\* C8: the roster a sweep leaves is a fixed point of the sweep, and the
\* sweep leaves the queue and the log as they were, so a second sweep right
\* after it yields the same roster, queue and log.
C8_ResetIdempotent ==
    [][ ResetStatusSweep =>
          /\ ResetSweep(USER_DATA', ASSIGNED_CALL_DATA') = USER_DATA'
          /\ ResetSweep(ResetSweep(USER_DATA, ASSIGNED_CALL_DATA), ASSIGNED_CALL_DATA)
                = ResetSweep(USER_DATA, ASSIGNED_CALL_DATA)
          /\ CALL_DATA' = CALL_DATA
          /\ ASSIGNED_CALL_DATA' = ASSIGNED_CALL_DATA ]_vars

\* The resetter is about to sweep a roster with two logged agents on call.
C8_Witness ==
    /\ pc["reset_status"] = "sweep"
    /\ \E i, j \in DOMAIN USER_DATA :
          /\ i # j
          /\ USER_DATA[i].status = "OnCall"
          /\ USER_DATA[j].status = "OnCall"
          /\ {USER_DATA[i].id, USER_DATA[j].id} \subseteq AssignedUserIds(ASSIGNED_CALL_DATA)

(* ---------------------------- C9 --------------------------------------- *)

\* C9: every call built by the generator, queued, or popped has an id in
\* 1..9998 and the department Mapping[id mod 5], and no step changes the
\* department of a call that stays in the queue.
C9_DepartmentFromId ==
    [][ /\ \A c \in {CALL_DATA'[k] : k \in DOMAIN CALL_DATA'} \cup ({new_call'} \ {None}) :
              /\ c.id \in 1..9998
              /\ c.department = Mapping[(c.id % 5) + 1]
        /\ \A k \in DOMAIN CALL_DATA \cap DOMAIN CALL_DATA' :
              CALL_DATA'[k].department = CALL_DATA[k].department ]_vars

\* The queue holds a call of remainder 0 and a call of remainder 4.
C9_Witness ==
    \E j, k \in DOMAIN CALL_DATA :
        /\ CALL_DATA[j].id % 5 = 0 /\ CALL_DATA[j].department = "Sales"
        /\ CALL_DATA[k].id % 5 = 4 /\ CALL_DATA[k].department = "Hr"

(* ---------------------------- C10 -------------------------------------- *)

\* C10: a step that changes an agent's status is a matcher iteration taking
\* it from Available to OnCall or a resetter sweep taking it from OnCall to
\* Available; no agent is ever in Break or LoggedOut.
C10_StatusTransitions ==
    [][ \A i \in DOMAIN USER_DATA :
          /\ USER_DATA'[i].status \notin {"Break", "LoggedOut"}
          /\ USER_DATA'[i].status # USER_DATA[i].status =>
                \/ /\ AssignCallLoop
                   /\ USER_DATA[i].status = "Available"
                   /\ USER_DATA'[i].status = "OnCall"
                \/ /\ ResetStatusSweep
                   /\ USER_DATA[i].status = "OnCall"
                   /\ USER_DATA'[i].status = "Available" ]_vars

\* An agent was matched, freed by a sweep, and matched again.
C10_Witness ==
    /\ reset_log > 0
    /\ \E i \in DOMAIN USER_DATA :
          /\ USER_DATA[i].status = "OnCall"
          /\ Cardinality({k \in DOMAIN ASSIGNED_CALL_DATA :
                            ASSIGNED_CALL_DATA[k].user_id = USER_DATA[i].id}) >= 2

(* ---------------------------- C13 -------------------------------------- *)

\* C13: a sweep leaves the log and the queue as they were, sets every agent
\* whose id is a user_id of the log to Available, and leaves every other
\* agent as it was.
C13_ResetFrame ==
    [][ ResetStatusSweep =>
          /\ ASSIGNED_CALL_DATA' = ASSIGNED_CALL_DATA
          /\ CALL_DATA' = CALL_DATA
          /\ DOMAIN USER_DATA' = DOMAIN USER_DATA
          /\ \A i \in DOMAIN USER_DATA :
                IF \E k \in DOMAIN ASSIGNED_CALL_DATA :
                      ASSIGNED_CALL_DATA[k].user_id = USER_DATA[i].id
                THEN USER_DATA'[i] = [USER_DATA[i] EXCEPT !.status = "Available"]
                ELSE USER_DATA'[i] = USER_DATA[i] ]_vars

\* After a sweep over a log of two agents: both are Available, the queue
\* still holds nothing of theirs and the three unlogged agents are untouched.
C13_Witness ==
    /\ reset_log = 2
    /\ pc["reset_status"] = "lock"
    /\ held["reset_status"] = 0
    /\ Len(ASSIGNED_CALL_DATA) = 2
    /\ \A i \in DOMAIN USER_DATA : USER_DATA[i].status = "Available"

(* ---------------------------- C14 -------------------------------------- *)

\* C14: the generator's push leaves the queue as the queue before it
\* followed by the new call, leaves the roster and the log unchanged, and
\* no other step makes the queue longer.
C14_GeneratorFrame ==
    [][ /\ CreateCallPush =>
              /\ CALL_DATA' = CALL_DATA \o << new_call >>
              /\ USER_DATA' = USER_DATA
              /\ ASSIGNED_CALL_DATA' = ASSIGNED_CALL_DATA
        /\ Len(CALL_DATA') > Len(CALL_DATA) =>
              /\ CreateCallPush
              /\ Len(CALL_DATA') = Len(CALL_DATA) + 1 ]_vars

\* Two ticks have queued two different calls, in their order of arrival.
C14_Witness ==
    /\ Len(CALL_DATA) = 2
    /\ generated = 2
    /\ CALL_DATA[1].id < CALL_DATA[2].id

(* ---------------------------- C15 -------------------------------------- *)

\* C15: when the popped call has an Available agent of its department, the
\* iteration sets the first such agent of the roster, and only that agent,
\* to OnCall and appends exactly the record of that agent's id and the
\* call's id.
C15_FirstEligibleAgent ==
    [][ AssignCallLoop =>
          LET c == Last(CALL_DATA)
              E == { i \in DOMAIN USER_DATA :
                       /\ USER_DATA[i].department = c.department
                       /\ USER_DATA[i].status = "Available" }
          IN  E # {} =>
                \E i \in E :
                    /\ \A j \in E : i <= j
                    /\ USER_DATA' = [USER_DATA EXCEPT ![i].status = "OnCall"]
                    /\ ASSIGNED_CALL_DATA' =
                          ASSIGNED_CALL_DATA
                             \o << [user_id |-> USER_DATA[i].id, call_id |-> c.id] >> ]_vars

\* Scenario A: Call 1 (Renewal) has just been given to Bob (id 2).
C15_Witness ==
    /\ InPass
    /\ call # None
    /\ call.id = 1
    /\ ASSIGNED_CALL_DATA = << [user_id |-> 2, call_id |-> 1] >>
    /\ USER_DATA[2].status = "OnCall"
    /\ \A i \in DOMAIN USER_DATA \ {2} : USER_DATA[i].status = "Available"

(* ---------------------------- C16 -------------------------------------- *)

\* C16: when a pass has handled its last call, no call still in the queue
\* has an Available agent of its department, and neither has any call that
\* was in the queue when the pass began.
C16_PassMatchesAllItCan ==
    (InPass /\ CALL_DATA = << >>) =>
        /\ \A k \in DOMAIN CALL_DATA : \A i \in DOMAIN USER_DATA :
              ~ (/\ USER_DATA[i].department = CALL_DATA[k].department
                 /\ USER_DATA[i].status = "Available")
        /\ \A k \in DOMAIN pass_calls : \A i \in DOMAIN USER_DATA :
              ~ (/\ USER_DATA[i].department = pass_calls[k].department
                 /\ USER_DATA[i].status = "Available")

\* The end of a pass over two calls of different departments.
C16_Witness ==
    /\ InPass
    /\ CALL_DATA = << >>
    /\ Len(pass_calls) = 2
    /\ pass_calls[1].department # pass_calls[2].department
    /\ Len(ASSIGNED_CALL_DATA) = 2

(* ---------------------------- C17 -------------------------------------- *)

\* C17: the number of "available again" messages of a sweep is the number
\* of agents that were not Available before it and are Available after it.
C17_OneEventPerChange ==
    [][ ResetStatusSweep =>
          reset_log' = Cardinality({ i \in DOMAIN USER_DATA :
                                       /\ USER_DATA[i].status # "Available"
                                       /\ USER_DATA'[i].status = "Available" }) ]_vars

(* ---------------------------- C18 -------------------------------------- *)

\* C18: the roster always holds the five seed agents in their order, and no
\* step changes an agent's id, name or department.
C18_RosterFixed ==
    [][ /\ Len(USER_DATA) = 5 /\ Len(USER_DATA') = 5
        /\ << USER_DATA'[1].id, USER_DATA'[1].name, USER_DATA'[1].department >>
              = << 1, "Alice", "Sales" >>
        /\ << USER_DATA'[2].id, USER_DATA'[2].name, USER_DATA'[2].department >>
              = << 2, "Bob", "Renewal" >>
        /\ << USER_DATA'[3].id, USER_DATA'[3].name, USER_DATA'[3].department >>
              = << 3, "Charlie", "Audit" >>
        /\ << USER_DATA'[4].id, USER_DATA'[4].name, USER_DATA'[4].department >>
              = << 4, "David", "Developer" >>
        /\ << USER_DATA'[5].id, USER_DATA'[5].name, USER_DATA'[5].department >>
              = << 5, "Eve", "Hr" >>
        /\ \A i \in DOMAIN USER_DATA :
              /\ USER_DATA'[i].id = USER_DATA[i].id
              /\ USER_DATA'[i].name = USER_DATA[i].name
              /\ USER_DATA'[i].department = USER_DATA[i].department ]_vars

\* The status field has moved: the first and the last agent are on a call,
\* under their seed names.
C18_Witness ==
    /\ USER_DATA[1].status = "OnCall"
    /\ USER_DATA[5].status = "OnCall"
    /\ USER_DATA[1].name = "Alice"
    /\ USER_DATA[5].name = "Eve"

(* ---------------------------- C19 -------------------------------------- *)

\* C19: outside a matcher pass every OnCall agent has its id as the user_id
\* of a log record, and the agent named by each record is of the department
\* Mapping[call_id mod 5].
C19_OnCallIsLogged ==
    ~InPass =>
        /\ \A i \in DOMAIN USER_DATA :
              USER_DATA[i].status = "OnCall" =>
                 \E k \in DOMAIN ASSIGNED_CALL_DATA :
                    ASSIGNED_CALL_DATA[k].user_id = USER_DATA[i].id
        /\ \A k \in DOMAIN ASSIGNED_CALL_DATA :
              \E i \in DOMAIN USER_DATA :
                 /\ USER_DATA[i].id = ASSIGNED_CALL_DATA[k].user_id
                 /\ USER_DATA[i].department
                       = Mapping[(ASSIGNED_CALL_DATA[k].call_id % 5) + 1]

\* Between passes: two agents are logged, one still on call and one freed.
C19_Witness ==
    /\ ~InPass
    /\ Len(ASSIGNED_CALL_DATA) = 2
    /\ ASSIGNED_CALL_DATA[1].user_id # ASSIGNED_CALL_DATA[2].user_id
    /\ \E i, j \in DOMAIN USER_DATA :
          /\ USER_DATA[i].id = ASSIGNED_CALL_DATA[1].user_id
          /\ USER_DATA[j].id = ASSIGNED_CALL_DATA[2].user_id
          /\ USER_DATA[i].status = "Available"
          /\ USER_DATA[j].status = "OnCall"

(* ---------------------------- C20 -------------------------------------- *)

\* C20: every matcher iteration takes the call at the tail of the queue, the
\* queue is empty when the pass drops its guards, and the log never holds
\* more records than the generator has produced calls.
C20_PassDrainsQueue ==
    [][ /\ AssignCallLoop => CALL_DATA = CALL_DATA' \o << call' >>
        /\ AssignCallEnd => (CALL_DATA = << >> /\ CALL_DATA' = << >>)
        /\ Len(ASSIGNED_CALL_DATA') <= generated' ]_vars

\* A pass over two different calls of one department has ended: the queue is
\* empty although only one of the two was matched.
C20_Witness ==
    /\ InPass
    /\ CALL_DATA = << >>
    /\ Len(pass_calls) = 2
    /\ pass_calls[1].id # pass_calls[2].id
    /\ pass_calls[1].department = pass_calls[2].department
    /\ Len(ASSIGNED_CALL_DATA) = 1
    /\ ASSIGNED_CALL_DATA[1].call_id = pass_calls[2].id

(* ---------------------------- C11 -------------------------------------- *)

\* The record that put agent i on its current call: the last one of the log
\* with the agent's id.
PutOnCallBy(i, c) ==
    /\ USER_DATA[i].status = "OnCall"
    /\ \E k \in DOMAIN ASSIGNED_CALL_DATA :
          /\ ASSIGNED_CALL_DATA[k] = [user_id |-> USER_DATA[i].id, call_id |-> c]
          /\ \A n \in DOMAIN ASSIGNED_CALL_DATA :
                n > k => ASSIGNED_CALL_DATA[n].user_id # USER_DATA[i].id

\* Agent i is Available and the record of call c for it is in the log.
FreedWithRecord(i, c) ==
    /\ USER_DATA[i].status = "Available"
    /\ \E k \in DOMAIN ASSIGNED_CALL_DATA :
          ASSIGNED_CALL_DATA[k] = [user_id |-> USER_DATA[i].id, call_id |-> c]

\* C11: under fair scheduling the resetter sweeps again and again, and each
\* sweep leaves every agent that a record had put OnCall Available, with
\* that record still in the log: an OnCall agent is Available again at the
\* next sweep.
C11_OnCallEventuallyFreed ==
    /\ []<><<ResetStatusSweep>>_vars
    /\ [][ ResetStatusSweep =>
             \A i \in DOMAIN USER_DATA :
                 USER_DATA[i].status = "OnCall" =>
                    /\ USER_DATA'[i].status = "Available"
                    /\ \E c \in CallIds : PutOnCallBy(i, c) /\ FreedWithRecord(i, c)' ]_vars

\* The same as a leads-to property of each agent and call id.
C11_LeadsTo ==
    \A i \in DOMAIN create_users :
        \A c \in { id \in CallIds : DepartmentOf(id) = create_users[i].department } :
            PutOnCallBy(i, c) ~> FreedWithRecord(i, c)

\* Scenario C: Bob is Available after a sweep and the log still holds {2, 1}.
C11_Witness ==
    /\ reset_log = 1
    /\ held["reset_status"] = 0
    /\ FreedWithRecord(2, 1)
    /\ ASSIGNED_CALL_DATA = << [user_id |-> 2, call_id |-> 1] >>

(* ---------------------------- C12 -------------------------------------- *)

\* C12: once a task has failed to acquire a poisoned lock, no task takes a
\* guard or reads or writes the roster, the queue or the log any more.
C12_LockFailureStopsAll ==
    [][ unwrap_failed =>
          /\ ~ (CreateCallLock \/ AssignCallLock \/ ResetStatusLock \/ HandlerLock)
          /\ ~ (CreateCallPush \/ AssignCallLoop \/ AssignCallEnd
                  \/ ResetStatusSweep \/ HandlerReply) ]_vars

====
